---- MODULE Spec2Model ----
(***************************************************************************)
(* Model of src/betterproto/enum.py: the metaclass EnumType and the base   *)
(* class Enum.  One enumeration class T is declared by a class body (a     *)
(* sequence of name bindings), built by EnumType.__new__ and then used     *)
(* through its lookups, its collection protocol and attribute mutation.    *)
(***************************************************************************)
EXTENDS Integers, Sequences, FiniteSets, TLC

\* ---------------------------------------------------------------- bounds
MaxDecl == 3
MaxVal == 1

\* Member names and values a class body may declare; the integers looked up
\* (one below and one above every declared value included).
Names == {"A", "B", "C"}
Values == 0 .. MaxVal
Ints == {0 - 1} \cup Values \cup {MaxVal + 1}

\* --------------------------------------------------- Python object model
None == "<None>"
NoExc == "<no exception>"
MethodName == "helper"
DunderNames == {"__module__", "__qualname__"}
AttrKeys == {"name", "value", "A"}
AttrValues == {MaxVal + 1}

\* The value of an attribute: a plain int, or a reference to an Enum object.
IntV(n) == [ref |-> FALSE, n |-> n]
RefV(id) == [ref |-> TRUE, n |-> id]

\* Enum.__new__: an int subclass object carrying the attributes name, value.
\* `int` is the content given to int.__new__, i.e. int(value).
PyInt(h, v) == IF v.ref THEN h[v.n].int ELSE v.n
EnumNew(h, cls, name, value) ==
    [cls |-> cls, int |-> PyInt(h, value), name |-> name, value |-> value]

\* Classes and their method resolution order; isinstance(obj, c).
Mro(t) ==
    CASE t = "T" -> {"T", "Enum", "int", "object"}
      [] t = "U" -> {"U", "Enum", "int", "object"}
      [] t = "int" -> {"int", "object"}
      [] t = "TType" -> {"TType", "EnumMcs", "EnumType", "type", "object"}
      [] OTHER -> {"object"}
IsInstance(t, c) == c \in Mro(t)

\* type(cls) for the enumeration class T: the metaclass built in __new__.
TypeOf(c) == IF c = "T" THEN "TType" ELSE "type"

\* A method of the metaclass declared @classmethod is bound to type(T).
MetaClassmethodCls(c) == TypeOf(c)

\* ------------------------------------------------- insertion-ordered dict
DictKeys(d) == {d[i].key : i \in DOMAIN d}
DictHas(d, k) == k \in DictKeys(d)
DictGet(d, k) == d[CHOOSE i \in DOMAIN d : d[i].key = k].val
DictSet(d, k, v) ==
    IF DictHas(d, k)
    THEN [i \in DOMAIN d |-> IF d[i].key = k THEN [d[i] EXCEPT !.val = v] ELSE d[i]]
    ELSE Append(d, [key |-> k, val |-> v])
DictValues(d) == [i \in DOMAIN d |-> d[i].val]

RECURSIVE Filter(_, _)
Filter(s, keep) ==
    IF s = <<>> THEN <<>>
    ELSE IF Head(s).key \in keep THEN <<Head(s)>> \o Filter(Tail(s), keep)
    ELSE Filter(Tail(s), keep)

Reverse(s) == [i \in 1 .. Len(s) |-> s[Len(s) + 1 - i]]

VARIABLES pc, namespace, redeclared, heap, value_map, member_map, type_attrs, last
vars == <<pc, namespace, redeclared, heap, value_map, member_map, type_attrs, last>>

\* -------------------------------------------------------- class creation
\* _is_descriptor: functions and classmethods have __get__; ints and strs do not.
is_descriptor(e) == e.kind = "func"

\* The namespace a class body starts from (plain dict: EnumType has no
\* __prepare__), holding the entries Python itself puts there.
InitialNamespace ==
    << [key |-> "__module__", val |-> 0, kind |-> "str"],
       [key |-> "__qualname__", val |-> 0, kind |-> "str"] >>

\* A name binding executed in the class body: namespace[name] = value.
StoreName(ns, name, value, kind) ==
    IF DictHas(ns, name)
    THEN [i \in DOMAIN ns |->
            IF ns[i].key = name THEN [key |-> name, val |-> value, kind |-> kind] ELSE ns[i]]
    ELSE Append(ns, [key |-> name, val |-> value, kind |-> kind])

\* members = {name: value for ... if not _is_descriptor(value) and not name.startswith("__")}
NotDunder(ns) == {ns[i].key : i \in {j \in DOMAIN ns : ~is_descriptor(ns[j])}} \ DunderNames
members(ns) == Filter(ns, NotDunder(ns))

\* One iteration of the loop of EnumType.__new__ over members.items().
NewStep_NoIntern(st, name, value) ==
    LET h2 == Append(st.heap, EnumNew(st.heap, "T", name, IntV(value)))
        member == Len(h2)
    IN  [heap |-> h2,
         value_map |-> DictSet(st.value_map, value, member),
         member_map |-> DictSet(st.member_map, name, member),
         type_attrs |-> DictSet(st.type_attrs, name, member)]

NewStep_DropAlias(st, name, value) ==
    LET found == DictHas(st.value_map, value)
        h2 == Append(st.heap, EnumNew(st.heap, "T", name, IntV(value)))
    IN  IF found THEN st
        ELSE [heap |-> h2,
              value_map |-> DictSet(st.value_map, value, Len(h2)),
              member_map |-> DictSet(st.member_map, name, Len(h2)),
              type_attrs |-> DictSet(st.type_attrs, name, Len(h2))]

NewStep(st, name, value) ==
    LET found == DictHas(st.value_map, value)
        h2 == IF found THEN st.heap
              ELSE Append(st.heap, EnumNew(st.heap, "T", name, IntV(value)))
        member == IF found THEN DictGet(st.value_map, value) ELSE Len(h2)
    IN  [heap |-> h2,
         value_map |-> IF found THEN st.value_map ELSE DictSet(st.value_map, value, member),
         member_map |-> DictSet(st.member_map, name, member),
         type_attrs |-> DictSet(st.type_attrs, name, member)]

RECURSIVE NewLoop(_, _)
NewLoop(st, ms) ==
    IF ms = <<>> THEN st
    ELSE NewLoop(NewStep(st, Head(ms).key, Head(ms).val), Tail(ms))

\* EnumType.__new__(mcs, name, bases, namespace): empty maps, then the loop.
EnumType_new(ns) ==
    NewLoop([heap |-> <<>>, value_map |-> <<>>, member_map |-> <<>>, type_attrs |-> <<>>],
            members(ns))

\* ---------------------------------------------------------------- lookups
Ok(id) == [exc |-> NoExc, ret |-> <<id>>]
Raise(e) == [exc |-> e, ret |-> <<>>]

\* EnumType.__call__(cls, value): cls._value_map_[value], KeyError -> ValueError.
call(vm, value) ==
    IF DictHas(vm, value) THEN Ok(DictGet(vm, value)) ELSE Raise("ValueError")

\* EnumType.__getitem__(cls, key): cls._member_map_[key].
getitem(mm, key) ==
    IF DictHas(mm, key) THEN Ok(DictGet(mm, key)) ELSE Raise("KeyError")

\* Enum.try_value(cls, value): the result and the heap after the call.
try_value_NoCatch(h, vm, value) ==
    IF ~DictHas(vm, value)
    THEN [exc |-> "KeyError", ret |-> <<>>, heap |-> h]
    ELSE [exc |-> NoExc, ret |-> <<DictGet(vm, value)>>, heap |-> h]

try_value(h, vm, value) ==
    IF ~DictHas(vm, value)
    THEN \* KeyError caught: cls.__new__(cls, name=None, value=value)
         [exc |-> NoExc, ret |-> <<Len(h) + 1>>,
          heap |-> Append(h, EnumNew(h, "T", None, IntV(value)))]
    ELSE LET m == DictGet(vm, value) IN   \* value = cls._value_map_[value]
         IF IsInstance(h[m].cls, TypeOf("T"))
         THEN [exc |-> NoExc, ret |-> <<m>>, heap |-> h]
         ELSE \* TypeError caught: value is now the member found above
              [exc |-> NoExc, ret |-> <<Len(h) + 1>>,
               heap |-> Append(h, EnumNew(h, "T", None, RefV(m)))]

\* Enum.from_string(cls, name): only KeyError is caught.
from_string(h, mm, name) ==
    IF ~DictHas(mm, name) THEN Raise("ValueError")
    ELSE LET member == DictGet(mm, name) IN
         IF IsInstance(h[member].cls, TypeOf("T")) THEN Ok(member) ELSE Raise("TypeError")

\* ---------------------------------------------------- collection protocol
len(mm) == Len(mm)
iter(mm) == DictValues(mm)
reversed_Forward(mm) == DictValues(mm)
reversed(mm) == Reverse(DictValues(mm))

\* EnumType.__contains__(cls, member); cand is [cls, name].
contains(mm, cand) ==
    /\ IsInstance(cand.cls, MetaClassmethodCls("T"))
    /\ IsInstance(cand.cls, "Enum")
    /\ DictHas(mm, cand.name)

\* ------------------------------------------------------------- mutation
\* EnumType.__setattr__ / __delattr__: raise, nothing is written.
type_setattr(attrs, name, value) == [exc |-> "AttributeError", type_attrs |-> attrs]
type_delattr(attrs, name) == [exc |-> "AttributeError", type_attrs |-> attrs]

\* Enum.__setattr__ / __delattr__: raise, nothing is written.
enum_setattr_Writes(h, id, key, value) ==
    [exc |-> NoExc,
     heap |-> IF key = "value" THEN [h EXCEPT ![id].value = IntV(value)] ELSE h]
enum_setattr(h, id, key, value) == [exc |-> "AttributeError", heap |-> h]
enum_delattr(h, id, key) == [exc |-> "AttributeError", heap |-> h]

\* --------------------------------------------------------- state machine
\* The outcome of the last operation: its arguments, the exception raised
\* (NoExc if none) and what it returned.
Blank ==
    [op |-> "none", key |-> 0, name |-> "", id |-> 0, cls |-> "",
     exc |-> NoExc, ret |-> <<>>, num |-> 0, truth |-> FALSE]

\* The Enum objects a caller can reach: the interned ones, and the result of
\* its last try_value call if that was a new object (an object nobody holds
\* any more is gone).
Interned(vm) == {vm[j].val : j \in DOMAIN vm}
Synthesized(h, vm) == DOMAIN h \ Interned(vm)
Hold(h0, r) ==
    LET kept == SelectSeq(h0, LAMBDA o : o.name # None)
    IN  IF r.ret # <<>> /\ r.ret[1] > Len(h0)
        THEN [heap |-> Append(kept, r.heap[r.ret[1]]), ret |-> <<Len(kept) + 1>>]
        ELSE [heap |-> kept, ret |-> r.ret]

Init ==
    /\ pc = "body"
    /\ namespace = InitialNamespace
    /\ redeclared = FALSE
    /\ heap = <<>>
    /\ value_map = <<>>
    /\ member_map = <<>>
    /\ type_attrs = <<>>
    /\ last = Blank

\* class T(Enum): ... NAME = value
Declare(n, v) ==
    /\ pc = "body"
    /\ DictHas(namespace, n) \/ Len(namespace) < Len(InitialNamespace) + MaxDecl
    /\ namespace' = StoreName(namespace, n, v, "int")
    /\ redeclared' = (redeclared \/ (DictHas(namespace, n) /\ DictGet(namespace, n) # v))
    /\ UNCHANGED <<pc, heap, value_map, member_map, type_attrs, last>>

\* class T(Enum): def helper(self): ...   (a method, written before the members)
DeclareMethod ==
    /\ pc = "body"
    /\ namespace = InitialNamespace
    /\ namespace' = StoreName(namespace, MethodName, 0, "func")
    /\ UNCHANGED <<pc, redeclared, heap, value_map, member_map, type_attrs, last>>

\* End of the class body: EnumType.__new__ builds the class.
Define ==
    /\ pc = "body"
    /\ LET st == EnumType_new(namespace) IN
        /\ heap' = st.heap
        /\ value_map' = st.value_map
        /\ member_map' = st.member_map
        /\ type_attrs' = st.type_attrs
    /\ pc' = "ready"
    /\ UNCHANGED <<namespace, redeclared, last>>

\* The class is built and the caller is about to make its next call.
Idle == pc = "ready" /\ last = Blank

\* The caller has taken the outcome of its last call.
Return ==
    /\ pc = "ready"
    /\ last # Blank
    /\ last' = Blank
    /\ UNCHANGED <<pc, namespace, redeclared, heap, value_map, member_map, type_attrs>>

Frame == UNCHANGED <<pc, namespace, redeclared, heap, value_map, member_map, type_attrs>>

\* T(value)
Call(x) ==
    /\ Idle
    /\ LET r == call(value_map, x) IN
        last' = [Blank EXCEPT !.op = "call", !.key = x, !.exc = r.exc, !.ret = r.ret]
    /\ Frame

\* T[name]
GetItem(n) ==
    /\ Idle
    /\ LET r == getitem(member_map, n) IN
        last' = [Blank EXCEPT !.op = "getitem", !.name = n, !.exc = r.exc, !.ret = r.ret]
    /\ Frame

\* T.try_value(value)
TryValueStep_Caching(x) ==
    /\ Idle
    /\ LET r == try_value(heap, value_map, x) IN
        /\ heap' = Hold(heap, r).heap
        /\ value_map' = IF r.exc = NoExc THEN DictSet(value_map, x, Hold(heap, r).ret[1])
                         ELSE value_map
        /\ last' = [Blank EXCEPT !.op = "try_value", !.key = x, !.exc = r.exc,
                                 !.ret = Hold(heap, r).ret]
    /\ UNCHANGED <<pc, namespace, redeclared, member_map, type_attrs>>

TryValueStep(x) ==
    /\ Idle
    /\ LET r == try_value(heap, value_map, x) IN
        /\ heap' = Hold(heap, r).heap
        /\ last' = [Blank EXCEPT !.op = "try_value", !.key = x, !.exc = r.exc,
                                 !.ret = Hold(heap, r).ret]
    /\ UNCHANGED <<pc, namespace, redeclared, value_map, member_map, type_attrs>>

\* T.from_string(name)
FromString(n) ==
    /\ Idle
    /\ LET r == from_string(heap, member_map, n) IN
        last' = [Blank EXCEPT !.op = "from_string", !.name = n, !.exc = r.exc, !.ret = r.ret]
    /\ Frame

\* len(T), list(T), list(reversed(T))
LenT ==
    /\ Idle
    /\ last' = [Blank EXCEPT !.op = "len", !.num = len(member_map)]
    /\ Frame

IterT ==
    /\ Idle
    /\ last' = [Blank EXCEPT !.op = "iter", !.ret = iter(member_map)]
    /\ Frame

ReversedT ==
    /\ Idle
    /\ last' = [Blank EXCEPT !.op = "reversed", !.ret = reversed(member_map)]
    /\ Frame

\* candidate in T, for an Enum object of T held by the caller (id), a member
\* of another enumeration class U, a plain int, or the class T itself.
ContainsInst(id) ==
    /\ Idle
    /\ last' = [Blank EXCEPT !.op = "contains", !.id = id, !.cls = heap[id].cls,
                             !.name = heap[id].name, !.key = heap[id].int,
                             !.truth = contains(member_map, heap[id])]
    /\ Frame

ContainsOther(c, n, v) ==
    /\ Idle
    /\ last' = [Blank EXCEPT !.op = "contains", !.cls = c, !.name = n, !.key = v,
                             !.truth = contains(member_map, [cls |-> c, name |-> n])]
    /\ Frame

\* setattr(T, name, value), delattr(T, name)
TypeSetAttr(n, v) ==
    /\ Idle
    /\ LET r == type_setattr(type_attrs, n, v) IN
        /\ type_attrs' = r.type_attrs
        /\ last' = [Blank EXCEPT !.op = "type_setattr", !.name = n, !.exc = r.exc]
    /\ UNCHANGED <<pc, namespace, redeclared, heap, value_map, member_map>>

TypeDelAttr(n) ==
    /\ Idle
    /\ LET r == type_delattr(type_attrs, n) IN
        /\ type_attrs' = r.type_attrs
        /\ last' = [Blank EXCEPT !.op = "type_delattr", !.name = n, !.exc = r.exc]
    /\ UNCHANGED <<pc, namespace, redeclared, heap, value_map, member_map>>

\* setattr(m, key, value), delattr(m, key) for an Enum object m of T
InstSetAttr(id, k, v) ==
    /\ Idle
    /\ LET r == enum_setattr(heap, id, k, v) IN
        /\ heap' = r.heap
        /\ last' = [Blank EXCEPT !.op = "enum_setattr", !.id = id, !.name = k, !.exc = r.exc]
    /\ UNCHANGED <<pc, namespace, redeclared, value_map, member_map, type_attrs>>

InstDelAttr(id, k) ==
    /\ Idle
    /\ LET r == enum_delattr(heap, id, k) IN
        /\ heap' = r.heap
        /\ last' = [Blank EXCEPT !.op = "enum_delattr", !.id = id, !.name = k, !.exc = r.exc]
    /\ UNCHANGED <<pc, namespace, redeclared, value_map, member_map, type_attrs>>

Next ==
    \/ \E n \in Names, v \in Values : Declare(n, v)
    \/ DeclareMethod
    \/ Define
    \/ Return
    \/ \E x \in Ints : Call(x)
    \/ \E n \in Names : GetItem(n)
    \/ \E x \in Ints : TryValueStep(x)
    \/ \E n \in Names : FromString(n)
    \/ LenT
    \/ IterT
    \/ ReversedT
    \/ \E id \in DOMAIN heap : ContainsInst(id)
    \/ \E i \in DOMAIN member_map :
          ContainsOther("U", member_map[i].key, heap[member_map[i].val].int)
    \/ \E v \in Ints : ContainsOther("int", None, v)
    \/ ContainsOther("TType", None, 0)
    \/ \E n \in AttrKeys, v \in AttrValues : TypeSetAttr(n, v)
    \/ \E n \in AttrKeys : TypeDelAttr(n)
    \/ \E id \in DOMAIN heap, k \in AttrKeys, v \in AttrValues : InstSetAttr(id, k, v)
    \/ \E id \in DOMAIN heap, k \in AttrKeys : InstDelAttr(id, k)

Spec == Init /\ [][Next]_vars

\* ------------------------------------------------------------ properties
DeclaredValues == LET ms == members(namespace) IN {ms[i].val : i \in DOMAIN ms}
MutationOps == {"type_setattr", "type_delattr", "enum_setattr", "enum_delattr"}
\* The first name that members ms binds to the value v.
FirstName(ms, v) ==
    LET first == CHOOSE i \in DOMAIN ms :
                    ms[i].val = v /\ \A j \in DOMAIN ms : ms[j].val = v => i <= j
    IN  ms[first].key

\* C1: for every declared value v, T(v) and T[n] for every name n declared
\* with v return the identical Enum object, the one created for the first
\* name declared with v (its name is that name, its value is v).
C1_Interning ==
    pc = "ready" =>
        LET ms == members(namespace) IN
        \A i \in DOMAIN ms :
            LET n == ms[i].key
                v == ms[i].val
                byValue == call(value_map, v)
                byName == getitem(member_map, n)
            IN  /\ byValue.exc = NoExc
                /\ byName.exc = NoExc
                /\ byName.ret = byValue.ret
                /\ heap[byValue.ret[1]].name = FirstName(ms, v)
                /\ heap[byValue.ret[1]].value = IntV(v)
                /\ (last.op = "call" /\ last.key = v => last.ret = byName.ret)
                /\ (last.op = "getitem" /\ last.name = n => last.ret = byValue.ret)

C1_Witness ==
    /\ last.op = "getitem"
    /\ last.exc = NoExc
    /\ heap[last.ret[1]].name # last.name
    /\ call(value_map, heap[last.ret[1]].int).ret = last.ret

\* C2: T.try_value(x) never fails and returns an Enum object whose value
\* equals x; for an undeclared x the object has name None.
C2_TolerantTotal ==
    /\ pc = "ready" => \A x \in Ints : try_value(heap, value_map, x).exc = NoExc
    /\ last.op = "try_value" =>
        /\ last.exc = NoExc
        /\ Len(last.ret) = 1
        /\ last.ret[1] \in DOMAIN heap
        /\ PyInt(heap, heap[last.ret[1]].value) = last.key
        /\ (last.key \notin DeclaredValues => heap[last.ret[1]].name = None)

C2_Witness ==
    /\ last.op = "try_value"
    /\ last.key < 0
    /\ DeclaredValues # {}
    /\ heap[last.ret[1]].name = None
    /\ heap[last.ret[1]].value = IntV(last.key)

\* C3: for x a key of value_map, T.try_value(x) returns the interned object,
\* the same one T(x) returns, carrying its declared name.
C3_TryValueInterned ==
    (last.op = "try_value" /\ DictHas(value_map, last.key)) =>
        /\ last.ret = call(value_map, last.key).ret
        /\ heap[last.ret[1]].name # None

\* C4: for x outside the declared values T(x) fails with ValueError, in every
\* state, whatever lookups came before: try_value inserts nothing into
\* value_map or member_map and len(T) stays the number of declared names.
C4_StrictPartial ==
    pc = "ready" =>
        LET dv == DeclaredValues IN
        /\ \A x \in Ints \ dv : call(value_map, x) = Raise("ValueError")
        /\ len(member_map) = Len(members(namespace))
        /\ \A id \in Interned(value_map) \cup Interned(member_map) : heap[id].name # None
        /\ (last.op = "call" /\ last.key \notin dv => last.exc = "ValueError")

C4_Witness ==
    /\ last.op = "call"
    /\ last.exc = "ValueError"
    /\ \E id \in DOMAIN heap : heap[id].name = None /\ heap[id].int = last.key

\* C5: for every declared name n, T.from_string(n) succeeds and returns the
\* object bound to n in member_map; only an absent name is an error.
C5_FromStringDeclared ==
    last.op = "from_string" =>
        IF DictHas(member_map, last.name)
        THEN last.exc = NoExc /\ last.ret = <<DictGet(member_map, last.name)>>
        ELSE last.exc = "ValueError"

\* C6: a class body that declares one name twice with two different values
\* produces no enumeration class.
C6_DuplicateNameRejected == redeclared => pc # "ready"

\* C7: every attempt to set or delete an attribute on T or on an Enum object
\* of T fails with AttributeError and changes neither map nor any object.
C7_Immutable ==
    [][last'.op \in MutationOps =>
          /\ last'.exc = "AttributeError"
          /\ UNCHANGED <<heap, value_map, member_map, type_attrs>>]_vars

C7_Witness ==
    /\ last.op = "enum_setattr"
    /\ last.exc = "AttributeError"
    /\ last.name = "value"
    /\ heap[last.id].name = None

\* C8: `candidate in T` is true exactly when the candidate is an Enum object
\* of T whose name is a key of member_map.
C8_Contains ==
    last.op = "contains" =>
        (last.truth <=> (last.cls = "T" /\ DictHas(member_map, last.name)))

\* C9: len(T) is the number of declared names; iterating T yields that many
\* objects in declaration order, once per name; reversed(T) is that sequence
\* backwards; an earlier iteration gave what a new one gives.
C9_LenIter ==
    pc = "ready" =>
        LET ms == members(namespace)
            it == iter(member_map)
            rv == reversed(member_map)
        IN  /\ len(member_map) = Len(ms)
            /\ Len(it) = Len(ms)
            /\ Len(rv) = Len(ms)
            /\ \A i \in DOMAIN ms :
                /\ <<it[i]>> = getitem(member_map, ms[i].key).ret
                /\ heap[it[i]].int = ms[i].val
                /\ rv[Len(ms) + 1 - i] = it[i]
            /\ (last.op = "len" => last.num = Len(ms))
            /\ (last.op = "iter" => last.ret = it)
            /\ (last.op = "reversed" => last.ret = rv)

C9_Witness ==
    /\ last.op = "reversed"
    /\ Len(last.ret) = 3
    /\ last.ret[1] = last.ret[3]
    /\ last.ret[1] # last.ret[2]
    /\ Len(value_map) = 2

\* C10 as stated: value_map and member_map have the same cardinality and
\* refer to the same set of objects.
C10_SameCardinality ==
    pc = "ready" =>
        /\ Len(value_map) = Len(member_map)
        /\ Interned(value_map) = Interned(member_map)

\* C10 amended: the two maps refer to the same set of objects, value_map has
\* one entry per distinct declared value and member_map one per declared
\* name, so |value_map| <= |member_map| with equality exactly when no two
\* names share a value.
C10_SameInstances ==
    pc = "ready" =>
        LET ms == members(namespace) IN
        /\ Interned(value_map) = Interned(member_map)
        /\ Len(value_map) = Cardinality(DeclaredValues)
        /\ Len(member_map) = Len(ms)
        /\ Len(value_map) <= Len(member_map)
        /\ (Len(value_map) = Len(member_map)) <=>
              (\A i, j \in DOMAIN ms : ms[i].val = ms[j].val => i = j)

C10_Witness ==
    /\ pc = "ready"
    /\ Len(value_map) = 2
    /\ Len(member_map) = 3
    /\ Interned(value_map) = Interned(member_map)

====
